---- MODULE Spec2Model ----
\* Write path and in-memory tier of a time-series family (tskv):
\* MemCache / MemEntry (src/tskv/src/memcache.rs) and TseriesFamily /
\* SuperVersion / FLUSH_REQ (src/tskv/src/tseries_family.rs).
EXTENDS Integers, Sequences, FiniteSets, TLC

----------------------------------------------------------------------------
\* Bounds of the model.

\* number of put_mutcache calls on the family
MaxPuts == 3
\* number of direct (caller-issued) TseriesFamily::switch_to_immutable calls
MaxSwitch == 1
\* number of operations applied to the stand-alone MemCache
MaxOps == 4
\* number of delete_cache calls on the family
MaxDeletes == 1
\* number of flush dispatches one family makes
MaxDispatch == 2
\* number of files applied to the LevelInfo
MaxFiles == 2
\* number of DataBlocks handed to merge_blocks, and rows of one DataBlock
MaxBlocks == 3
MaxBlockLen == 2

----------------------------------------------------------------------------
\* Program constants and input domains.

\* i64::MIN / i64::MAX.  Timestamps are only compared, never added, so the
\* two extremes are narrowed to the integer range of the model checker.
I64_MIN == -2147483647
I64_MAX == 2147483647

\* size_of_val(&val) of a DataType: the same for every variant of the enum.
SizeOfDataType == 32

\* timestamps offered to put / insert
Timestamps == {90, 100, 110}
\* (field id, value type) pairs written by the callers
Fields == {<<1, "Float">>, <<2, "Integer">>}
\* WAL sequence numbers accompanying a put (Version.last_seq is 0)
SeqNos == {1}
\* payload buffers (big-endian bytes)
Bufs == {<<0, 0, 0, 0, 0, 0, 0, 10>>}

\* time ranges handed to delete_range / delete_cache: one timestamp, two
\* adjacent ones, all of them, and one with max_ts < min_ts
Ranges == {[max_ts |-> 100, min_ts |-> 100], [max_ts |-> 100, min_ts |-> 90],
           [max_ts |-> 110, min_ts |-> 90], [max_ts |-> 90, min_ts |-> 110]}
\* field id lists handed to MemCache::delete_range
FieldIdLists == {<<1>>, <<1, 2, 3>>}
\* writes of one field id under two value types and two payloads
SameField == {<<1, "Float">>, <<1, "Integer">>}
TieTimestamps == {90, 100}
TieBufs == {<<0, 0, 0, 0, 0, 0, 0, 10>>, <<0, 0, 0, 0, 0, 0, 0, 20>>}

\* DataBlocks: their variant and their timestamps, strictly ascending; the
\* value of a row tells the block's place in the list and the timestamp
BlockTags == {"U64", "I64"}
BlockTimestamps == {1, 2, 3}
BlockTs ==
    {s \in UNION {[1..n -> BlockTimestamps] : n \in 0..MaxBlockLen} :
        \A i \in 1..Len(s) - 1 : s[i] < s[i + 1]}
BlockLists ==
    {[k \in 1..Len(l) |->
         [tag |-> l[k][1], ts |-> l[k][2],
          val |-> [i \in 1..Len(l[k][2]) |-> 10 * k + l[k][2][i]]]] :
        l \in UNION {[1..n -> BlockTags \X BlockTs] : n \in 0..MaxBlocks}}

\* tf_id of the families that share FLUSH_REQ and the sink
Families == {1, 2}

\* CompactMeta.ts_min / ts_max (i64, before and after the epoch) and
\* CompactMeta.file_size of the files applied to a level
FileTimestamps == {-5, 0, 5, 10}
FileSizes == {1, 2}

\* GLOBAL_CONFIG.max_memcache_size / GLOBAL_CONFIG.max_immemcache_num
MemcacheSizes == {0, 32, 64, 1024}
ImmemcacheNums == {1, 2}
\* max_size of the MemCache the caller hands to TseriesFamily::new
InitBufSizes == {0, 500}
\* Version.max_level_ts the family is recovered with
InitLevelTs == {I64_MIN, 100}

----------------------------------------------------------------------------
\* State.

VARIABLES
    GLOBAL_CONFIG,  \* [max_memcache_size, max_immemcache_num]
    heap,           \* the MemCache objects; an Arc<RwLock<MemCache>> is an index
    tsf,            \* the TseriesFamily struct
    version,        \* the Version behind tsf.version
    FLUSH_REQ,      \* the process-wide Vec<FlushReq>
    sender,         \* number of messages sent on the flush sink
    panicked,       \* the task hit todo!() / expect()
    mc,             \* a stand-alone MemCache driven through its own methods
    mc_ops,         \* number of operations applied to mc
    mc_last,        \* history: the last method called on mc
    mc_pre,         \* history: mc as it was before that call
    mc_arg,         \* history: the arguments of that call (delete_range)
    mc_ret,         \* how that call ended: "Ok", an Err value, or "panic"
    level,          \* a LevelInfo driven through init / apply
    blocks,         \* the DataBlocks handed to merge_blocks / append
    blk_res,        \* the outcome of that call
    disp,           \* per family: where it is in a flush dispatch, how many it made
    puts,           \* history: the arguments of the put_mutcache calls so far
    nswitch,        \* history: number of direct switch_to_immutable calls
    deletes,        \* history: the ranges of the delete_cache calls so far
    handed,         \* history: the caches handed to switch_memcache so far
    frozen,         \* history: caches rotated out, in rotation order
    published,      \* history: version_id of every SuperVersion published
    flush_log,      \* history: the watermarks seen at each FLUSH_REQ push
    wr,             \* the writer task: its call, its position in it, its guards
    shared          \* the locks on which scanners hold shared guards

vars == <<GLOBAL_CONFIG, heap, tsf, version, FLUSH_REQ, sender, panicked,
          mc, mc_ops, mc_last, mc_pre, mc_arg, mc_ret, level, blocks, blk_res, disp,
          puts, nswitch, deletes, handed, frozen, published, flush_log, wr, shared>>

mcVars == <<mc, mc_ops, mc_last, mc_pre, mc_arg, mc_ret>>

lvlVars == <<level>>

blkVars == <<blocks, blk_res>>

dspVars == <<disp>>

lckVars == <<wr, shared>>

famVars == <<GLOBAL_CONFIG, heap, tsf, version, FLUSH_REQ, sender, panicked,
             puts, nswitch, deletes, handed, frozen, published, flush_log>>

----------------------------------------------------------------------------
\* memcache.rs

\* byte_utils::decode_be_*: the big-endian number held by the buffer
RECURSIVE decode_be(_)
decode_be(buf) ==
    IF Len(buf) = 0 THEN 0
    ELSE decode_be(SubSeq(buf, 1, Len(buf) - 1)) * 256 + buf[Len(buf)]

MemEntry_default ==
    [ts_min |-> I64_MAX, ts_max |-> I64_MIN, field_type |-> "Unknown", cells |-> <<>>]

MemCache_new(tf_id, max_size, seq, is_delta) ==
    [immutable |-> FALSE, tf_id |-> tf_id, seq_no |-> seq,
     max_buf_size |-> max_size, is_delta |-> is_delta,
     data_cache |-> [f \in {} |-> MemEntry_default], cache_size |-> 0]

timestamp(c) == c.ts

\* an insert that lowers ts_min only when it did not raise ts_max
MemCache_insert_else_if(m, field_id, val, value_type) ==
    LET ts == timestamp(val)
        item == IF field_id \in DOMAIN m.data_cache
                THEN m.data_cache[field_id] ELSE MemEntry_default
        item2 == IF item.ts_max < ts THEN [item EXCEPT !.ts_max = ts]
                 ELSE IF item.ts_min > ts THEN [item EXCEPT !.ts_min = ts] ELSE item
        item3 == [item2 EXCEPT !.field_type = value_type,
                               !.cells = Append(@, val)]
    IN [m EXCEPT !.data_cache =
                     [f \in DOMAIN m.data_cache \cup {field_id} |->
                         IF f = field_id THEN item3 ELSE m.data_cache[f]],
                 !.cache_size = @ + SizeOfDataType]

MemCache_insert(m, field_id, val, value_type) ==
    LET ts == timestamp(val)
        item == IF field_id \in DOMAIN m.data_cache
                THEN m.data_cache[field_id] ELSE MemEntry_default
        item1 == IF item.ts_max < ts THEN [item EXCEPT !.ts_max = ts] ELSE item
        item2 == IF item1.ts_min > ts THEN [item1 EXCEPT !.ts_min = ts] ELSE item1
        item3 == [item2 EXCEPT !.field_type = value_type,
                               !.cells = Append(@, val)]
    IN [m EXCEPT !.data_cache =
                     [f \in DOMAIN m.data_cache \cup {field_id} |->
                         IF f = field_id THEN item3 ELSE m.data_cache[f]],
                 !.cache_size = @ + SizeOfDataType]

\* Result: the cache and whether the call panicked (todo!() on Unknown)
MemCache_insert_raw(m, seq, field_id, ts, field_type, buf) ==
    LET m1 == [m EXCEPT !.seq_no = seq]
        cell(tag, v) == [tag |-> tag, ts |-> ts, val |-> v]
    IN CASE field_type = "Unsigned" ->
              [mem |-> MemCache_insert(m1, field_id, cell("U64", decode_be(buf)), "Unsigned"),
               panic |-> FALSE]
         [] field_type = "Integer" ->
              [mem |-> MemCache_insert(m1, field_id, cell("I64", decode_be(buf)), "Integer"),
               panic |-> FALSE]
         [] field_type = "Float" ->
              [mem |-> MemCache_insert(m1, field_id, cell("F64", decode_be(buf)), "Float"),
               panic |-> FALSE]
         [] field_type = "String" ->
              [mem |-> MemCache_insert(m1, field_id, cell("Str", buf), "String"),
               panic |-> FALSE]
         [] field_type = "Boolean" ->
              [mem |-> MemCache_insert(m1, field_id, cell("Bool", decode_be(buf) # 0), "Boolean"),
               panic |-> FALSE]
         [] OTHER -> [mem |-> m1, panic |-> TRUE]

\* a sort that places a cell before the cells of equal timestamp
RECURSIVE sort_by_timestamp_unstable(_)
sort_by_timestamp_unstable(cells) ==
    IF Len(cells) <= 1 THEN cells
    ELSE LET init == sort_by_timestamp_unstable(SubSeq(cells, 1, Len(cells) - 1))
             x == cells[Len(cells)]
             k == Cardinality({i \in 1..Len(init) : timestamp(init[i]) < timestamp(x)})
         IN SubSeq(init, 1, k) \o <<x>> \o SubSeq(init, k + 1, Len(init))

\* Vec::sort_by on the timestamps: a stable sort
RECURSIVE sort_by_timestamp(_)
sort_by_timestamp(cells) ==
    IF Len(cells) <= 1 THEN cells
    ELSE LET init == sort_by_timestamp(SubSeq(cells, 1, Len(cells) - 1))
             x == cells[Len(cells)]
             k == Cardinality({i \in 1..Len(init) : timestamp(init[i]) <= timestamp(x)})
         IN SubSeq(init, 1, k) \o <<x>> \o SubSeq(init, k + 1, Len(init))

MemCache_switch_to_immutable(m) ==
    [m EXCEPT !.data_cache = [f \in DOMAIN m.data_cache |->
                                 [m.data_cache[f] EXCEPT !.cells = sort_by_timestamp(@)]],
              !.immutable = TRUE]

MemCache_is_full(m) == m.cache_size >= m.max_buf_size

\* a retain that also keeps the cells at the two ends of the range
RECURSIVE retain_outside_or_at_ends(_, _)
retain_outside_or_at_ends(cells, range) ==
    IF Len(cells) = 0 THEN <<>>
    ELSE LET t == timestamp(Head(cells))
         IN IF t <= range.min_ts \/ t >= range.max_ts
            THEN <<Head(cells)>> \o retain_outside_or_at_ends(Tail(cells), range)
            ELSE retain_outside_or_at_ends(Tail(cells), range)

\* a removal that stops at the first cell inside the range
RECURSIVE retain_outside_first_hit(_, _)
retain_outside_first_hit(cells, range) ==
    IF Len(cells) = 0 THEN <<>>
    ELSE LET t == timestamp(Head(cells))
         IN IF t < range.min_ts \/ t > range.max_ts
            THEN <<Head(cells)>> \o retain_outside_first_hit(Tail(cells), range)
            ELSE Tail(cells)

\* MemEntry::delete_range(range): Vec::retain keeps, in their order, the
\* cells outside the range
RECURSIVE retain_outside(_, _)
retain_outside(cells, range) ==
    IF Len(cells) = 0 THEN <<>>
    ELSE LET t == timestamp(Head(cells))
         IN IF t < range.min_ts \/ t > range.max_ts
            THEN <<Head(cells)>> \o retain_outside(Tail(cells), range)
            ELSE retain_outside(Tail(cells), range)

MemEntry_delete_range(e, range) == [e EXCEPT !.cells = retain_outside(@, range)]

\* delete_range that gives the size of the removed cells back to cache_size
MemCache_delete_range_releases_size(m, field_ids, range) ==
    LET ids == {field_ids[i] : i \in 1..Len(field_ids)}
        kept == [f \in DOMAIN m.data_cache |->
                    IF f \in ids THEN MemEntry_delete_range(m.data_cache[f], range)
                    ELSE m.data_cache[f]]
        cells(dc) == Cardinality(UNION {{<<f, i>> : i \in 1..Len(dc[f].cells)} : f \in DOMAIN dc})
    IN [m EXCEPT !.data_cache = kept,
                 !.cache_size = @ - SizeOfDataType * (cells(m.data_cache) - cells(kept))]

\* MemCache::delete_range(field_ids, range): the entries of the listed
\* field ids that are present
MemCache_delete_range(m, field_ids, range) ==
    LET ids == {field_ids[i] : i \in 1..Len(field_ids)}
    IN [m EXCEPT !.data_cache =
                     [f \in DOMAIN m.data_cache |->
                         IF f \in ids THEN MemEntry_delete_range(m.data_cache[f], range)
                         ELSE m.data_cache[f]]]

----------------------------------------------------------------------------
\* tseries_family.rs: LevelInfo

TimeRange_new(max_ts, min_ts) == [max_ts |-> max_ts, min_ts |-> min_ts]

\* ColumnFile::mark_removed()
ColumnFile_mark_removed(file) == [file EXCEPT !.deleted = TRUE]

\* ColumnFile::is_deleted()
ColumnFile_is_deleted(file) == file.deleted

\* LevelInfo::init(level)
LevelInfo_init(lvl) ==
    [files |-> <<>>, level |-> lvl, cur_size |-> 0, max_size |-> 0,
     ts_range |-> [max_ts |-> 0, min_ts |-> 0]]

\* LevelInfo::apply(delta)
LevelInfo_apply(l, delta) ==
    LET file == [file_id |-> delta.file_id, being_compact |-> FALSE, deleted |-> FALSE,
                 range |-> TimeRange_new(delta.ts_max, delta.ts_min),
                 size |-> delta.file_size, is_delta |-> delta.is_delta]
        l1 == [l EXCEPT !.files = Append(@, file),
                        !.cur_size = @ + delta.file_size]
        l2 == IF l1.ts_range.max_ts < delta.ts_max
              THEN [l1 EXCEPT !.ts_range.max_ts = delta.ts_max] ELSE l1
    IN IF l2.ts_range.min_ts > delta.ts_max
       THEN [l2 EXCEPT !.ts_range.min_ts = delta.ts_min] ELSE l2

----------------------------------------------------------------------------
\* tsm/block.rs

\* blk_res before any call
NoCall == [op |-> "none"]

\* Option::None
None == [tag |-> "None"]

\* DataBlock::new(size, field_type): the capacity is not a length
DataBlock_new(size, field_type) ==
    [tag |-> CASE field_type = "Unsigned" -> "U64"
               [] field_type = "Integer" -> "I64"
               [] field_type = "Float" -> "F64"
               [] field_type = "String" -> "Str"
               [] field_type = "Boolean" -> "Bool",
     ts |-> <<>>, val |-> <<>>]

\* DataBlock::insert(data): a cell of another variant is ignored
DataBlock_insert(b, data) ==
    IF data.tag = b.tag
    THEN [b EXCEPT !.ts = Append(@, data.ts), !.val = Append(@, data.val)]
    ELSE b

\* DataBlock::len()
DataBlock_len(b) == Len(b.ts)

\* DataBlock::field_type()
DataBlock_field_type(b) ==
    CASE b.tag = "U64" -> "Unsigned"
      [] b.tag = "I64" -> "Integer"
      [] b.tag = "F64" -> "Float"
      [] b.tag = "Str" -> "String"
      [] b.tag = "Bool" -> "Boolean"

\* DataBlock::is_empty()
DataBlock_is_empty(b) == Len(b.ts) > 0

\* DataBlock::get(i), i counted from 0
DataBlock_get(b, i) ==
    IF Len(b.ts) <= i THEN None
    ELSE [tag |-> b.tag, ts |-> b.ts[i + 1], val |-> b.val[i + 1]]

\* DataBlock::time_range(start, end) panics when an index is out of bounds
time_range_panics(b, start, end) == start >= Len(b.ts) \/ end = 0 \/ end - 1 >= Len(b.ts)

\* DataBlock::append(other).  Result: self afterwards and whether the call
\* panicked.  new_blk is dropped at the end of the call; its set(k, _) indexes
\* a Vec of length 0.
DataBlock_append(self, other) ==
    IF DataBlock_is_empty(other) THEN [self |-> self, panic |-> FALSE]
    ELSE IF DataBlock_field_type(self) # DataBlock_field_type(other)
    THEN [self |-> self, panic |-> FALSE]
    ELSE IF time_range_panics(self, 0, DataBlock_len(self))
            \/ time_range_panics(other, 0, DataBlock_len(other))
    THEN [self |-> self, panic |-> TRUE]
    ELSE [self |-> self, panic |-> 0 < DataBlock_len(self) /\ 0 < DataBlock_len(other)]

\* DataBlock::rebuild_vec(blocks, dst, offsets): refills the empty slots of
\* dst and returns the least timestamp held by dst
rebuild_vec(blks, dst, offsets) ==
    LET refill(i) == dst[i] = None
        dst1 == [i \in 1..Len(blks) |->
                    IF refill(i) THEN DataBlock_get(blks[i], offsets[i]) ELSE dst[i]]
        offsets1 == [i \in 1..Len(blks) |-> IF refill(i) THEN offsets[i] + 1 ELSE offsets[i]]
        some == {i \in 1..Len(blks) : dst1[i] # None}
    IN [dst |-> dst1, offsets |-> offsets1,
        min_ts |-> IF some = {} THEN None
                   ELSE [tag |-> "Some",
                         ts |-> CHOOSE t \in {dst1[i].ts : i \in some} :
                                   \A i \in some : t <= dst1[i].ts]]

\* the loop of merge_blocks that keeps the first cell of the least timestamp
RECURSIVE merge_loop_first_wins(_, _, _, _)
merge_loop_first_wins(blks, buf, offsets, res) ==
    LET rb == rebuild_vec(blks, buf, offsets)
    IN IF rb.min_ts = None THEN res
       ELSE LET hit == {i \in 1..Len(blks) : rb.dst[i] # None /\ rb.dst[i].ts = rb.min_ts.ts}
                data == rb.dst[CHOOSE i \in hit : \A k \in hit : k >= i]
                buf1 == [i \in 1..Len(blks) |-> IF i \in hit THEN None ELSE rb.dst[i]]
            IN merge_loop_first_wins(blks, buf1, rb.offsets, DataBlock_insert(res, data))

\* the loop of merge_blocks: every slot holding the least timestamp is taken,
\* the last one taken is inserted
RECURSIVE merge_loop(_, _, _, _)
merge_loop(blks, buf, offsets, res) ==
    LET rb == rebuild_vec(blks, buf, offsets)
    IN IF rb.min_ts = None THEN res
       ELSE LET hit == {i \in 1..Len(blks) : rb.dst[i] # None /\ rb.dst[i].ts = rb.min_ts.ts}
                data == rb.dst[CHOOSE i \in hit : \A k \in hit : k <= i]
                buf1 == [i \in 1..Len(blks) |-> IF i \in hit THEN None ELSE rb.dst[i]]
            IN merge_loop(blks, buf1, rb.offsets, DataBlock_insert(res, data))

\* DataBlock::merge_blocks(blocks).  Result: the block returned and whether
\* the call panicked (first().unwrap() on an empty list)
merge_blocks(blks) ==
    IF Len(blks) = 1 THEN [out |-> blks[1], panic |-> FALSE]
    ELSE IF Len(blks) = 0 THEN [out |-> None, panic |-> TRUE]
    ELSE [out |-> merge_loop(blks, [i \in 1..Len(blks) |-> None],
                             [i \in 1..Len(blks) |-> 0],
                             DataBlock_new(DataBlock_len(blks[1]), DataBlock_field_type(blks[1]))),
          panic |-> FALSE]

----------------------------------------------------------------------------
\* tseries_family.rs

\* The state the family's methods read and write, threaded through them.
World ==
    [tsf |-> tsf, version |-> version, heap |-> heap, FLUSH_REQ |-> FLUSH_REQ,
     sender |-> sender, panicked |-> panicked, frozen |-> frozen,
     published |-> published, flush_log |-> flush_log]

SuperVersion_new(id, delta_mut_cache, mut_cache, immut_cache, version_id) ==
    [id |-> id, delta_mut_cache |-> delta_mut_cache, mut_cache |-> mut_cache,
     immut_cache |-> immut_cache, version_id |-> version_id]

\* TseriesFamily::new: `cache` becomes heap[1], the delta cache heap[2]
TseriesFamily_new(tf_id, cache, ver) ==
    LET seq == ver.last_seq
        max_level_ts == ver.max_level_ts
        delta_mm == MemCache_new(tf_id, GLOBAL_CONFIG.max_memcache_size, seq, TRUE)
    IN [heap |-> <<cache, delta_mm>>,
        tsf |-> [tf_id |-> tf_id,
                 seq_no |-> seq,
                 delta_mut_cache |-> 2,
                 mut_cache |-> 1,
                 immut_cache |-> <<>>,
                 super_version |-> SuperVersion_new(tf_id, 2, 1, <<>>, 0),
                 super_version_id |-> 0,
                 immut_ts_min |-> max_level_ts,
                 mut_ts_max |-> I64_MIN]]

\* switch_to_immutable publishing the immutables list it had before the push
switch_to_immutable_stale_list(w) ==
    LET heap1 == [w.heap EXCEPT ![w.tsf.super_version.mut_cache] =
                                    MemCache_switch_to_immutable(@)]
        immut == Append(w.tsf.immut_cache, w.tsf.mut_cache)
        heap2 == Append(heap1, MemCache_new(w.tsf.tf_id,
                                            GLOBAL_CONFIG.max_memcache_size,
                                            w.tsf.seq_no, FALSE))
        fresh == Len(heap2)
        id == w.tsf.super_version_id + 1
        vers == SuperVersion_new(w.tsf.tf_id, w.tsf.delta_mut_cache, fresh,
                                 w.tsf.immut_cache, id)
    IN [w EXCEPT !.heap = heap2,
                 !.tsf.immut_cache = immut,
                 !.tsf.mut_cache = fresh,
                 !.tsf.super_version_id = id,
                 !.tsf.super_version = vers,
                 !.frozen = Append(@, w.tsf.mut_cache),
                 !.published = Append(@, vers.version_id)]

switch_to_immutable(w) ==
    LET heap1 == [w.heap EXCEPT ![w.tsf.super_version.mut_cache] =
                                    MemCache_switch_to_immutable(@)]
        immut == Append(w.tsf.immut_cache, w.tsf.mut_cache)
        heap2 == Append(heap1, MemCache_new(w.tsf.tf_id,
                                            GLOBAL_CONFIG.max_memcache_size,
                                            w.tsf.seq_no, FALSE))
        fresh == Len(heap2)
        id == w.tsf.super_version_id + 1
        vers == SuperVersion_new(w.tsf.tf_id, w.tsf.delta_mut_cache, fresh, immut, id)
    IN [w EXCEPT !.heap = heap2,
                 !.tsf.immut_cache = immut,
                 !.tsf.mut_cache = fresh,
                 !.tsf.super_version_id = id,
                 !.tsf.super_version = vers,
                 !.frozen = Append(@, w.tsf.mut_cache),
                 !.published = Append(@, vers.version_id)]

\* TseriesFamily::switch_memcache(cache): SuperVersion::new takes the delta
\* cache second and the mutable cache third
switch_memcache(w, cache) ==
    LET heap1 == [w.heap EXCEPT ![w.tsf.super_version.mut_cache] =
                                    MemCache_switch_to_immutable(@)]
        immut == Append(w.tsf.immut_cache, w.tsf.mut_cache)
        id == w.tsf.super_version_id + 1
        vers == SuperVersion_new(w.tsf.tf_id, cache, w.tsf.delta_mut_cache, immut, id)
    IN [w EXCEPT !.heap = heap1,
                 !.tsf.immut_cache = immut,
                 !.tsf.super_version_id = id,
                 !.tsf.super_version = vers,
                 !.tsf.mut_cache = cache,
                 !.frozen = Append(@, w.tsf.mut_cache),
                 !.published = Append(@, vers.version_id)]

\* what the family's watermarks are when a FlushReq is pushed
FlushNote(w, kind) ==
    [kind |-> kind, immut_ts_min |-> w.tsf.immut_ts_min,
     mut_ts_max |-> w.tsf.mut_ts_max, max_level_ts |-> w.version.max_level_ts]

\* wrap_delta_flush_req without the fetch_add on super_version_id
wrap_delta_flush_req_no_bump(w) ==
    LET req_mem == <<<<w.tsf.tf_id, w.tsf.delta_mut_cache>>>>
        heap1 == Append(w.heap, MemCache_new(w.tsf.tf_id,
                                             GLOBAL_CONFIG.max_memcache_size,
                                             w.tsf.seq_no, TRUE))
        fresh == Len(heap1)
        id == w.tsf.super_version_id
        vers == SuperVersion_new(w.tsf.tf_id, fresh, w.tsf.mut_cache,
                                 w.tsf.immut_cache, id)
    IN [w EXCEPT !.heap = heap1,
                 !.tsf.delta_mut_cache = fresh,
                 !.tsf.super_version_id = id,
                 !.tsf.super_version = vers,
                 !.FLUSH_REQ = Append(@, [mems |-> req_mem, wait_req |-> 0]),
                 !.sender = @ + 1,
                 !.published = Append(@, vers.version_id),
                 !.flush_log = Append(@, FlushNote(w, "delta"))]

wrap_delta_flush_req(w) ==
    LET req_mem == <<<<w.tsf.tf_id, w.tsf.delta_mut_cache>>>>
        heap1 == Append(w.heap, MemCache_new(w.tsf.tf_id,
                                             GLOBAL_CONFIG.max_memcache_size,
                                             w.tsf.seq_no, TRUE))
        fresh == Len(heap1)
        id == w.tsf.super_version_id + 1
        vers == SuperVersion_new(w.tsf.tf_id, fresh, w.tsf.mut_cache,
                                 w.tsf.immut_cache, id)
    IN [w EXCEPT !.heap = heap1,
                 !.tsf.delta_mut_cache = fresh,
                 !.tsf.super_version_id = id,
                 !.tsf.super_version = vers,
                 !.FLUSH_REQ = Append(@, [mems |-> req_mem, wait_req |-> 0]),
                 !.sender = @ + 1,
                 !.published = Append(@, vers.version_id),
                 !.flush_log = Append(@, FlushNote(w, "delta"))]

\* wrap_flush_req that keeps the handed caches in immut_cache
wrap_flush_req_keeps_list(w) ==
    LET req_mem == [i \in 1..Len(w.tsf.immut_cache) |->
                       <<w.tsf.tf_id, w.tsf.immut_cache[i]>>]
        id == w.tsf.super_version_id + 1
        vers == SuperVersion_new(w.tsf.tf_id, w.tsf.delta_mut_cache,
                                 w.tsf.mut_cache, w.tsf.immut_cache, id)
    IN [w EXCEPT !.tsf.super_version_id = id,
                 !.tsf.super_version = vers,
                 !.FLUSH_REQ = Append(@, [mems |-> req_mem, wait_req |-> 0]),
                 !.sender = @ + 1,
                 !.published = Append(@, vers.version_id),
                 !.flush_log = Append(@, FlushNote(w, "immut"))]

\* wrap_flush_req that batches only the first immutable cache
wrap_flush_req_first_only(w) ==
    LET req_mem == [i \in 1..(IF Len(w.tsf.immut_cache) = 0 THEN 0 ELSE 1) |->
                       <<w.tsf.tf_id, w.tsf.immut_cache[i]>>]
        id == w.tsf.super_version_id + 1
        vers == SuperVersion_new(w.tsf.tf_id, w.tsf.delta_mut_cache,
                                 w.tsf.mut_cache, <<>>, id)
    IN [w EXCEPT !.tsf.immut_cache = <<>>,
                 !.tsf.super_version_id = id,
                 !.tsf.super_version = vers,
                 !.FLUSH_REQ = Append(@, [mems |-> req_mem, wait_req |-> 0]),
                 !.sender = @ + 1,
                 !.published = Append(@, vers.version_id),
                 !.flush_log = Append(@, FlushNote(w, "immut"))]

wrap_flush_req(w) ==
    LET req_mem == [i \in 1..Len(w.tsf.immut_cache) |->
                       <<w.tsf.tf_id, w.tsf.immut_cache[i]>>]
        id == w.tsf.super_version_id + 1
        vers == SuperVersion_new(w.tsf.tf_id, w.tsf.delta_mut_cache,
                                 w.tsf.mut_cache, <<>>, id)
    IN [w EXCEPT !.tsf.immut_cache = <<>>,
                 !.tsf.super_version_id = id,
                 !.tsf.super_version = vers,
                 !.FLUSH_REQ = Append(@, [mems |-> req_mem, wait_req |-> 0]),
                 !.sender = @ + 1,
                 !.published = Append(@, vers.version_id),
                 !.flush_log = Append(@, FlushNote(w, "immut"))]

\* put_bootstrap that leaves the sentinel in place
put_bootstrap_skipped(w, ts) == w

\* put_mutcache, lines 391-393: first-sample bootstrap of the watermark
put_bootstrap(w, ts) ==
    IF w.tsf.immut_ts_min = I64_MIN THEN [w EXCEPT !.tsf.immut_ts_min = ts] ELSE w

\* put_route with a strict comparison against the watermark
put_route_strict(w, fid, val, dtype, seq, ts) ==
    IF ts > w.tsf.immut_ts_min
    THEN LET w1 == IF ts > w.tsf.mut_ts_max THEN [w EXCEPT !.tsf.mut_ts_max = ts] ELSE w
             r == MemCache_insert_raw(w1.heap[w1.tsf.super_version.mut_cache],
                                      seq, fid, ts, dtype, val)
         IN [w1 EXCEPT !.heap[w1.tsf.super_version.mut_cache] = r.mem,
                       !.panicked = r.panic]
    ELSE LET r == MemCache_insert_raw(w.heap[w.tsf.super_version.delta_mut_cache],
                                      seq, fid, ts, dtype, val)
         IN [w EXCEPT !.heap[w.tsf.super_version.delta_mut_cache] = r.mem,
                      !.panicked = r.panic]

\* put_mutcache, lines 395-404: route the sample by the watermark
put_route(w, fid, val, dtype, seq, ts) ==
    IF ts >= w.tsf.immut_ts_min
    THEN LET w1 == IF ts > w.tsf.mut_ts_max THEN [w EXCEPT !.tsf.mut_ts_max = ts] ELSE w
             r == MemCache_insert_raw(w1.heap[w1.tsf.super_version.mut_cache],
                                      seq, fid, ts, dtype, val)
         IN [w1 EXCEPT !.heap[w1.tsf.super_version.mut_cache] = r.mem,
                       !.panicked = r.panic]
    ELSE LET r == MemCache_insert_raw(w.heap[w.tsf.super_version.delta_mut_cache],
                                      seq, fid, ts, dtype, val)
         IN [w EXCEPT !.heap[w.tsf.super_version.delta_mut_cache] = r.mem,
                      !.panicked = r.panic]

\* put_delta_on_in_order that tests the mutable cache for emptiness
put_delta_on_in_order_wrong_cache(w, ts) ==
    IF ts >= w.tsf.immut_ts_min
       /\ DOMAIN w.heap[w.tsf.mut_cache].data_cache # {}
    THEN wrap_delta_flush_req(w) ELSE w

\* put_mutcache, lines 405-407: ship the delta cache on an in-order arrival
put_delta_on_in_order(w, ts) ==
    IF ts >= w.tsf.immut_ts_min
       /\ DOMAIN w.heap[w.tsf.delta_mut_cache].data_cache # {}
    THEN wrap_delta_flush_req(w) ELSE w

\* put_rotate that flushes only above max_immemcache_num
put_rotate_late_flush(w) ==
    IF MemCache_is_full(w.heap[w.tsf.super_version.mut_cache])
    THEN LET w1 == switch_to_immutable(w)
         IN IF Len(w1.tsf.immut_cache) > GLOBAL_CONFIG.max_immemcache_num
            THEN wrap_flush_req([w1 EXCEPT !.tsf.immut_ts_min = w1.tsf.mut_ts_max,
                                           !.version.max_level_ts = w1.tsf.mut_ts_max])
            ELSE w1
    ELSE w

\* put_rotate that does not store mut_ts_max into version.max_level_ts
put_rotate_no_level_ts(w) ==
    IF MemCache_is_full(w.heap[w.tsf.super_version.mut_cache])
    THEN LET w1 == switch_to_immutable(w)
         IN IF Len(w1.tsf.immut_cache) >= GLOBAL_CONFIG.max_immemcache_num
            THEN wrap_flush_req([w1 EXCEPT !.tsf.immut_ts_min = w1.tsf.mut_ts_max])
            ELSE w1
    ELSE w

\* put_mutcache, lines 409-417: rotate a full mutable cache, flush the immutables
put_rotate(w) ==
    IF MemCache_is_full(w.heap[w.tsf.super_version.mut_cache])
    THEN LET w1 == switch_to_immutable(w)
         IN IF Len(w1.tsf.immut_cache) >= GLOBAL_CONFIG.max_immemcache_num
            THEN wrap_flush_req([w1 EXCEPT !.tsf.immut_ts_min = w1.tsf.mut_ts_max,
                                           !.version.max_level_ts = w1.tsf.mut_ts_max])
            ELSE w1
    ELSE w

\* put_delta_full that ships the delta cache only once it is over its capacity
put_delta_full_over_capacity(w) ==
    LET d == w.heap[w.tsf.super_version.delta_mut_cache]
    IN IF d.cache_size > d.max_buf_size THEN wrap_delta_flush_req(w) ELSE w

\* put_mutcache, lines 419-421: ship a full delta cache
put_delta_full(w) ==
    IF MemCache_is_full(w.heap[w.tsf.super_version.delta_mut_cache])
    THEN wrap_delta_flush_req(w) ELSE w

put_mutcache(w, fid, val, dtype, seq, ts) ==
    LET w1 == put_route(put_bootstrap(w, ts), fid, val, dtype, seq, ts)
    IN IF w1.panicked THEN w1
       ELSE put_delta_full(put_rotate(put_delta_on_in_order(w1, ts)))

\* a push that stores the request over the last one queued
flush_req_push_over_last(q, req) ==
    IF Len(q) = 0 THEN <<req>> ELSE [q EXCEPT ![Len(q)] = req]

\* FLUSH_REQ.lock().push(FlushReq { mems: req_mem, wait_req: 0 }): one
\* critical section of the queue's mutex
flush_req_push(q, req) == Append(q, req)

\* sender.send(FLUSH_REQ.clone()) on the unbounded channel: one more message
sender_send(n) == n + 1

\* MemEntry::overlap(range)
MemEntry_overlap(e, range) == range.min_ts <= e.ts_max /\ range.max_ts >= e.ts_min

\* MemEntry::delete_data_cell(range)
MemEntry_delete_data_cell(e, range) == MemEntry_delete_range(e, range)

\* one of the loops of delete_cache, over the entries of cache h
delete_cache_in(hp, h, range) ==
    [hp EXCEPT ![h].data_cache =
        [f \in DOMAIN @ |-> IF MemEntry_overlap(@[f], range)
                            THEN MemEntry_delete_data_cell(@[f], range)
                            ELSE @[f]]]

RECURSIVE delete_cache_each(_, _, _)
delete_cache_each(hp, caches, range) ==
    IF Len(caches) = 0 THEN hp
    ELSE delete_cache_each(delete_cache_in(hp, Head(caches), range), Tail(caches), range)

\* a delete_cache that leaves the immutable caches alone
delete_cache_not_immut(w, range) ==
    [w EXCEPT !.heap = delete_cache_each(w.heap, <<w.tsf.mut_cache, w.tsf.delta_mut_cache>>,
                                         range)]

\* TseriesFamily::delete_cache(time_range)
delete_cache(w, range) ==
    [w EXCEPT !.heap = delete_cache_each(w.heap,
                                         <<w.tsf.mut_cache, w.tsf.delta_mut_cache>>
                                            \o w.tsf.immut_cache,
                                         range)]

----------------------------------------------------------------------------
\* Actions on the family.

SetWorld(w) ==
    /\ tsf' = w.tsf
    /\ version' = w.version
    /\ heap' = w.heap
    /\ FLUSH_REQ' = w.FLUSH_REQ
    /\ sender' = w.sender
    /\ panicked' = w.panicked
    /\ frozen' = w.frozen
    /\ published' = w.published
    /\ flush_log' = w.flush_log

\* a writer calls put_mutcache
Put ==
    /\ ~panicked
    /\ Len(puts) < MaxPuts
    /\ \E f \in Fields, ts \in Timestamps, seq \in SeqNos, val \in Bufs :
          /\ SetWorld(put_mutcache(World, f[1], val, f[2], seq, ts))
          /\ puts' = Append(puts, [fid |-> f[1], dtype |-> f[2], seq |-> seq, ts |-> ts])
    /\ UNCHANGED <<GLOBAL_CONFIG, mcVars, lvlVars, blkVars, dspVars, lckVars, nswitch, deletes, handed>>

\* a caller rotates the mutable cache directly
SwitchToImmutable ==
    /\ ~panicked
    /\ nswitch < MaxSwitch
    /\ SetWorld(switch_to_immutable(World))
    /\ nswitch' = nswitch + 1
    /\ UNCHANGED <<GLOBAL_CONFIG, mcVars, lvlVars, blkVars, dspVars, lckVars, puts, deletes, handed>>

\* a caller deletes a time range from the family's caches
DeleteCache ==
    /\ ~panicked
    /\ Len(deletes) < MaxDeletes
    /\ \E r \in Ranges :
          /\ SetWorld(delete_cache(World, r))
          /\ deletes' = Append(deletes, r)
    /\ UNCHANGED <<GLOBAL_CONFIG, mcVars, lvlVars, blkVars, dspVars, lckVars, puts, nswitch, handed>>

\* a caller installs a mutable cache of its own making
SwitchMemcache ==
    /\ ~panicked
    /\ Len(handed) < MaxSwitch
    /\ \E size \in InitBufSizes :
          LET cache == Len(heap) + 1
              w == [World EXCEPT !.heap = Append(@, MemCache_new(tsf.tf_id, size, 0, FALSE))]
          IN /\ SetWorld(switch_memcache(w, cache))
             /\ handed' = Append(handed, cache)
    /\ UNCHANGED <<GLOBAL_CONFIG, mcVars, lvlVars, blkVars, dspVars, lckVars, puts, nswitch, deletes>>

\* the history of a call that takes no range
NoArg == [field_ids |-> <<>>, range |-> [max_ts |-> 0, min_ts |-> 0], field_type |-> "none"]

McInit ==
    /\ mc = MemCache_new(1, 1024, 0, FALSE)
    /\ mc_ops = 0
    /\ mc_last = "new"
    /\ mc_pre = mc
    /\ mc_arg = NoArg
    /\ mc_ret = "Ok"

\* no LevelInfo beyond LevelInfo::init, no DataBlock call made
LvlInit == level = LevelInfo_init(0)

BlkIdle ==
    /\ blocks = <<>>
    /\ blk_res = NoCall

\* no family is dispatching a flush
DspIdle == disp = [f \in Families |-> [pc |-> "idle", n |-> 0]]

\* the writer is between calls and no scanner holds a guard
WrIdle ==
    [pc |-> "idle", phase |-> "await", op |-> "none", fid |-> 0, dtype |-> "none",
     ts |-> 0, range |-> [max_ts |-> 0, min_ts |-> 0], k |-> 0, held |-> {}, calls |-> 0]

LckIdle == wr = WrIdle /\ shared = {}

FamilyInit(cfg, buf_size, level_ts) ==
    /\ GLOBAL_CONFIG = cfg
    /\ version = [last_seq |-> 0, max_level_ts |-> level_ts]
    /\ LET n == TseriesFamily_new(0, MemCache_new(0, buf_size, 0, FALSE), version)
       IN /\ heap = n.heap
          /\ tsf = n.tsf
    /\ FLUSH_REQ = <<>>
    /\ sender = 0
    /\ panicked = FALSE
    /\ puts = <<>>
    /\ nswitch = 0
    /\ deletes = <<>>
    /\ handed = <<>>
    /\ frozen = <<>>
    /\ published = <<>>
    /\ flush_log = <<>>

Init ==
    /\ \E size \in MemcacheSizes, num \in ImmemcacheNums,
          buf_size \in InitBufSizes, level_ts \in InitLevelTs :
          FamilyInit([max_memcache_size |-> size, max_immemcache_num |-> num],
                     buf_size, level_ts)
    /\ McInit
    /\ LvlInit
    /\ BlkIdle
    /\ DspIdle
    /\ LckIdle

Next == Put \/ SwitchToImmutable

Spec == Init /\ [][Next]_vars

\* a put-only run: the writer is the family's only caller
NextPuts == Put

SpecPuts == Init /\ [][NextPuts]_vars

\* the family under puts, rotations and deletes, with a rotation threshold
\* of two samples and room for a flush batch of two
InitDelete ==
    /\ FamilyInit([max_memcache_size |-> 64, max_immemcache_num |-> 2], 500, I64_MIN)
    /\ McInit
    /\ LvlInit
    /\ BlkIdle
    /\ DspIdle
    /\ LckIdle

NextDelete == Put \/ SwitchToImmutable \/ DeleteCache

SpecDelete == InitDelete /\ [][NextDelete]_vars

\* the family under its four public operations
NextPublic == Put \/ SwitchToImmutable \/ SwitchMemcache \/ DeleteCache

SpecPublic == InitDelete /\ [][NextPublic]_vars

----------------------------------------------------------------------------
\* The writer task and the scanners, one step per lock acquisition.  A lock
\* is named by the heap index of its MemCache; the lock of the Version is 0.

VersionLock == 0

\* calls the writer makes in a run
MaxCalls == 2

\* arguments the writer passes: put_mutcache(fid, dtype, ts), delete_cache(range);
\* the second timestamp is late after the first and in order before it
LockFields == {<<1, "Float">>}
LockTimestamps == {90, 100}
LockRanges == {[max_ts |-> 100, min_ts |-> 90]}

\* a guard is <<lock, mode>>.  A guard that is a temporary of a statement, of
\* an if condition or of a for loop is dropped at the end of that scope.
\* The variant below keeps shared guards of a condition alive through the
\* body of the if, as a match or if-let scrutinee would.
drop_guard_keeps_shared(held, l) == {g \in held : g[1] # l \/ g[2] = "r"}

drop_guard(held, l) == {g \in held : g[1] # l}

\* tokio::sync::RwLock: an exclusive guard needs a lock nobody holds
can_write(l) == l \notin shared /\ \A g \in wr.held : g[1] # l

\* a shared guard for the writer needs a lock it does not hold exclusively
can_read(l) == <<l, "w">> \notin wr.held

\* the caches delete_cache visits, in its order
DeleteOrder == <<tsf.mut_cache, tsf.delta_mut_cache>> \o tsf.immut_cache

\* the lock the writer acquires next and the mode it asks for
Wants ==
    CASE wr.pc = "route" ->
            [lock |-> IF wr.ts >= tsf.immut_ts_min THEN tsf.super_version.mut_cache
                      ELSE tsf.super_version.delta_mut_cache,
             mode |-> "w"]
      [] wr.pc = "delta_chk" -> [lock |-> tsf.delta_mut_cache, mode |-> "r"]
      [] wr.pc = "full_chk" -> [lock |-> tsf.super_version.mut_cache, mode |-> "r"]
      [] wr.pc = "rotate" -> [lock |-> tsf.super_version.mut_cache, mode |-> "w"]
      [] wr.pc = "level_ts" -> [lock |-> VersionLock, mode |-> "w"]
      [] wr.pc = "dfull_chk" -> [lock |-> tsf.super_version.delta_mut_cache, mode |-> "r"]
      [] wr.pc = "del" -> [lock |-> DeleteOrder[wr.k], mode |-> "w"]
      [] OTHER -> [lock |-> VersionLock, mode |-> "none"]

\* the writer is suspended in .read().await / .write().await
Waiting == wr.pc # "idle" /\ wr.phase = "await"

lckFrame == <<GLOBAL_CONFIG, mcVars, lvlVars, blkVars, dspVars, puts, nswitch, deletes, handed>>

\* put_mutcache is called: lines 391-393 run, the task reaches the first await
PutCall ==
    /\ wr.pc = "idle" /\ wr.calls < MaxCalls /\ ~panicked
    /\ \E f \in LockFields, ts \in LockTimestamps :
          /\ SetWorld(put_bootstrap(World, ts))
          /\ wr' = [wr EXCEPT !.pc = "route", !.phase = "await", !.op = "put",
                              !.fid = f[1], !.dtype = f[2], !.ts = ts]
    /\ UNCHANGED <<lckFrame, shared>>

\* delete_cache is called
DeleteCall ==
    /\ wr.pc = "idle" /\ wr.calls < MaxCalls /\ ~panicked
    /\ \E r \in LockRanges :
          wr' = [wr EXCEPT !.pc = "del", !.phase = "await", !.op = "delete",
                           !.range = r, !.k = 1]
    /\ UNCHANGED <<famVars, mcVars, lvlVars, blkVars, dspVars, shared>>

\* switch_to_immutable is called
SwitchCall ==
    /\ wr.pc = "idle" /\ wr.calls < MaxCalls /\ ~panicked
    /\ wr' = [wr EXCEPT !.pc = "rotate", !.phase = "await", !.op = "switch"]
    /\ UNCHANGED <<famVars, mcVars, lvlVars, blkVars, dspVars, shared>>

\* the awaited guard is granted
WrAcquire ==
    /\ Waiting
    /\ IF Wants.mode = "w" THEN can_write(Wants.lock) ELSE can_read(Wants.lock)
    /\ wr' = [wr EXCEPT !.phase = "run", !.held = @ \cup {<<Wants.lock, Wants.mode>>}]
    /\ UNCHANGED <<famVars, mcVars, lvlVars, blkVars, dspVars, shared>>

\* where the writer goes next, and with which guards
Goto(pc, l) ==
    [wr EXCEPT !.pc = pc, !.phase = "await", !.held = drop_guard(@, l),
               !.calls = IF pc = "idle" THEN @ + 1 ELSE @]

\* the code from the guard just granted up to the next await
WrRun ==
    /\ wr.pc # "idle" /\ wr.phase = "run"
    /\ LET l == Wants.lock
           w == World
       IN CASE wr.pc = "route" ->
                 \* lines 395-404
                 \E val \in Bufs :
                    LET w1 == put_route(w, wr.fid, val, wr.dtype, 1, wr.ts)
                    IN /\ SetWorld(w1)
                       /\ wr' = Goto(IF w1.panicked THEN "idle"
                                     ELSE IF wr.ts >= w.tsf.immut_ts_min THEN "delta_chk"
                                     ELSE "full_chk", l)
            [] wr.pc = "delta_chk" ->
                 \* lines 405-407
                 /\ SetWorld(put_delta_on_in_order(w, wr.ts))
                 /\ wr' = Goto("full_chk", l)
            [] wr.pc = "full_chk" ->
                 \* line 409
                 /\ SetWorld(w)
                 /\ wr' = Goto(IF MemCache_is_full(w.heap[l]) THEN "rotate" ELSE "dfull_chk", l)
            [] wr.pc = "rotate" ->
                 \* lines 321-338, then lines 412-413
                 LET w1 == switch_to_immutable(w)
                     flush == Len(w1.tsf.immut_cache) >= GLOBAL_CONFIG.max_immemcache_num
                 IN IF wr.op = "switch"
                    THEN SetWorld(w1) /\ wr' = Goto("idle", l)
                    ELSE IF flush
                    THEN /\ SetWorld([w1 EXCEPT !.tsf.immut_ts_min = w1.tsf.mut_ts_max])
                         /\ wr' = Goto("level_ts", l)
                    ELSE SetWorld(w1) /\ wr' = Goto("dfull_chk", l)
            [] wr.pc = "level_ts" ->
                 \* lines 414-415
                 /\ SetWorld(wrap_flush_req([w EXCEPT !.version.max_level_ts = w.tsf.mut_ts_max]))
                 /\ wr' = Goto("dfull_chk", l)
            [] wr.pc = "dfull_chk" ->
                 \* lines 419-421
                 /\ SetWorld(put_delta_full(w))
                 /\ wr' = Goto("idle", l)
            [] wr.pc = "del" ->
                 \* one of the loops of lines 425-440
                 /\ SetWorld([w EXCEPT !.heap = delete_cache_in(w.heap, l, wr.range)])
                 /\ wr' = IF wr.k < Len(DeleteOrder)
                          THEN [Goto("del", l) EXCEPT !.k = wr.k + 1]
                          ELSE Goto("idle", l)
    /\ UNCHANGED <<lckFrame, shared>>

\* a scanner takes a shared guard on a cache, or on the Version, of a
\* SuperVersion it holds.  The lock is write-preferring: a shared guard is not
\* granted while the writer holds or awaits the exclusive guard.
ScanAcquire ==
    /\ \E l \in 0..Len(heap) :
          /\ l \notin shared
          /\ <<l, "w">> \notin wr.held
          /\ ~(Waiting /\ Wants.mode = "w" /\ Wants.lock = l)
          /\ shared' = shared \cup {l}
    /\ UNCHANGED <<famVars, mcVars, lvlVars, blkVars, dspVars, wr>>

\* the locks there can be: the Version, the two caches of a new family and
\* the caches a call creates (at most two: a rotation and a delta flush, the
\* fresh delta cache of line 406 being empty at line 419)
LockIds == 0..(2 + 2 * MaxCalls)

\* the scanners drop their shared guards on lock l
ScanReleaseOf(l) ==
    /\ l \in shared
    /\ shared' = shared \ {l}
    /\ UNCHANGED <<famVars, mcVars, lvlVars, blkVars, dspVars, wr>>

ScanRelease == \E l \in LockIds : ScanReleaseOf(l)

\* small caches, so that puts rotate and flush
InitLocks ==
    /\ FamilyInit([max_memcache_size |-> 32, max_immemcache_num |-> 2], 32, I64_MIN)
    /\ McInit
    /\ LvlInit
    /\ BlkIdle
    /\ DspIdle
    /\ LckIdle

NextLocks ==
    PutCall \/ DeleteCall \/ SwitchCall \/ WrAcquire \/ WrRun \/ ScanAcquire \/ ScanRelease

SpecLocks == InitLocks /\ [][NextLocks]_vars

\* the runtime polls a task whose guard can be granted and runs it up to its
\* next await; scanners release every guard they hold
SpecLocksFair ==
    /\ SpecLocks
    /\ WF_vars(WrAcquire) /\ WF_vars(WrRun)
    /\ \A l \in LockIds : WF_vars(ScanReleaseOf(l))

----------------------------------------------------------------------------
\* Actions on a stand-alone MemCache (the family is left alone).

\* MemCache::insert_raw(seq, field_id, ts, field_type, buf)
McInsertRaw ==
    /\ mc_ops < MaxOps
    /\ mc_ret # "panic"
    /\ \E f \in Fields, ts \in Timestamps, seq \in SeqNos, buf \in Bufs :
          LET r == MemCache_insert_raw(mc, seq, f[1], ts, f[2], buf)
          IN /\ ~r.panic
             /\ mc' = r.mem
    /\ mc_ops' = mc_ops + 1
    /\ mc_last' = "insert_raw"
    /\ mc_pre' = mc
    /\ mc_arg' = NoArg
    /\ mc_ret' = "Ok"
    /\ UNCHANGED <<famVars, lvlVars, blkVars, dspVars, lckVars>>

\* MemCache::insert(field_id, val, value_type)
McInsert ==
    /\ mc_ops < MaxOps
    /\ mc_ret # "panic"
    /\ \E f \in Fields, ts \in Timestamps, buf \in Bufs :
          mc' = MemCache_insert(mc, f[1],
                                [tag |-> IF f[2] = "Float" THEN "F64" ELSE "I64",
                                 ts |-> ts, val |-> decode_be(buf)],
                                f[2])
    /\ mc_ops' = mc_ops + 1
    /\ mc_last' = "insert"
    /\ mc_pre' = mc
    /\ mc_arg' = NoArg
    /\ mc_ret' = "Ok"
    /\ UNCHANGED <<famVars, lvlVars, blkVars, dspVars, lckVars>>

\* MemCache::switch_to_immutable()
McSwitchToImmutable ==
    /\ mc_ops < MaxOps
    /\ mc_ret # "panic"
    /\ mc' = MemCache_switch_to_immutable(mc)
    /\ mc_ops' = mc_ops + 1
    /\ mc_last' = "switch_to_immutable"
    /\ mc_pre' = mc
    /\ mc_arg' = NoArg
    /\ mc_ret' = "Ok"
    /\ UNCHANGED <<famVars, lvlVars, blkVars, dspVars, lckVars>>

\* MemCache::insert_raw with ValueType::Unknown
McInsertRawUnknown ==
    /\ mc_ops < MaxOps
    /\ mc_ret # "panic"
    /\ \E f \in Fields, ts \in {100}, seq \in SeqNos, buf \in Bufs :
          LET r == MemCache_insert_raw(mc, seq, f[1], ts, "Unknown", buf)
          IN /\ mc' = r.mem
             /\ mc_ret' = IF r.panic THEN "panic" ELSE "Ok"
    /\ mc_ops' = mc_ops + 1
    /\ mc_last' = "insert_raw"
    /\ mc_pre' = mc
    /\ mc_arg' = [NoArg EXCEPT !.field_type = "Unknown"]
    /\ UNCHANGED <<famVars, lvlVars, blkVars, dspVars, lckVars>>

\* MemCache::delete_range(field_ids, range)
McDeleteRange ==
    /\ mc_ops < MaxOps
    /\ mc_ret # "panic"
    /\ \E ids \in FieldIdLists, r \in Ranges :
          /\ mc' = MemCache_delete_range(mc, ids, r)
          /\ mc_arg' = [field_ids |-> ids, range |-> r, field_type |-> "none"]
    /\ mc_ops' = mc_ops + 1
    /\ mc_last' = "delete_range"
    /\ mc_pre' = mc
    /\ mc_ret' = "Ok"
    /\ UNCHANGED <<famVars, lvlVars, blkVars, dspVars, lckVars>>

\* MemCache::insert_raw on one field id, under either value type
McInsertRawSameField ==
    /\ mc_ops < MaxOps
    /\ mc_ret # "panic"
    /\ \E f \in SameField, ts \in TieTimestamps, seq \in SeqNos, buf \in TieBufs :
          LET r == MemCache_insert_raw(mc, seq, f[1], ts, f[2], buf)
          IN /\ ~r.panic
             /\ mc' = r.mem
    /\ mc_ops' = mc_ops + 1
    /\ mc_last' = "insert_raw"
    /\ mc_pre' = mc
    /\ mc_arg' = NoArg
    /\ mc_ret' = "Ok"
    /\ UNCHANGED <<famVars, lvlVars, blkVars, dspVars, lckVars>>

InitCache ==
    /\ FamilyInit([max_memcache_size |-> 1024, max_immemcache_num |-> 2], 500, I64_MIN)
    /\ McInit
    /\ LvlInit
    /\ BlkIdle
    /\ DspIdle
    /\ LckIdle

NextCache ==
    McInsertRaw \/ McInsert \/ McSwitchToImmutable \/ McDeleteRange \/ McInsertRawUnknown

SpecCache == InitCache /\ [][NextCache]_vars

\* the capacities of the caches that fill up within a run
CacheSizes == {32, 64}

\* a cache of a small capacity, so that it becomes full
InitFrame ==
    /\ FamilyInit([max_memcache_size |-> 1024, max_immemcache_num |-> 2], 500, I64_MIN)
    /\ \E size \in CacheSizes : mc = MemCache_new(1, size, 0, FALSE)
    /\ mc_ops = 0
    /\ mc_last = "new"
    /\ mc_pre = mc
    /\ mc_arg = NoArg
    /\ mc_ret = "Ok"
    /\ LvlInit
    /\ BlkIdle
    /\ DspIdle
    /\ LckIdle

SpecFrame == InitFrame /\ [][NextCache]_vars

\* The tail of wrap_delta_flush_req (kind "delta") and of wrap_flush_req
\* (kind "immut") run by family f, one statement at a time, while other
\* families run theirs.  The k-th request of family f carries (f, k) for
\* every cache it hands over.

\* FLUSH_REQ.lock().push(FlushReq { mems: req_mem, wait_req: 0 })
DispatchPush(f) ==
    /\ disp[f].pc = "idle"
    /\ disp[f].n < MaxDispatch
    /\ \E kind \in {"delta", "immut"} :
          LET k == disp[f].n + 1
              req_mem == IF kind = "delta" THEN <<<<f, k>>>> ELSE <<<<f, k>>, <<f, k>>>>
          IN FLUSH_REQ' = flush_req_push(FLUSH_REQ, [mems |-> req_mem, wait_req |-> 0])
    /\ disp' = [disp EXCEPT ![f].pc = "pushed"]
    /\ UNCHANGED <<GLOBAL_CONFIG, heap, tsf, version, sender, panicked, puts, nswitch,
                   deletes, handed, frozen, published, flush_log, mcVars, lvlVars, blkVars, lckVars>>

\* info!(.., FLUSH_REQ.lock().len())
DispatchLog(f) ==
    /\ disp[f].pc = "pushed"
    /\ disp' = [disp EXCEPT ![f].pc = "logged"]
    /\ UNCHANGED <<famVars, mcVars, lvlVars, blkVars, lckVars>>

\* sender.send(FLUSH_REQ.clone())
DispatchSend(f) ==
    /\ disp[f].pc = "logged"
    /\ sender' = sender_send(sender)
    /\ disp' = [disp EXCEPT ![f].pc = "idle", ![f].n = @ + 1]
    /\ UNCHANGED <<GLOBAL_CONFIG, heap, tsf, version, FLUSH_REQ, panicked, puts, nswitch,
                   deletes, handed, frozen, published, flush_log, mcVars, lvlVars, blkVars, lckVars>>

Push == \E f \in Families : DispatchPush(f)
Log == \E f \in Families : DispatchLog(f)
Send == \E f \in Families : DispatchSend(f)

InitFlush ==
    /\ FamilyInit([max_memcache_size |-> 1024, max_immemcache_num |-> 2], 500, I64_MIN)
    /\ McInit
    /\ LvlInit
    /\ BlkIdle
    /\ DspIdle
    /\ LckIdle

NextFlush == Push \/ Log \/ Send

SpecFlush == InitFlush /\ [][NextFlush]_vars

\* LevelInfo::apply(delta) with the metadata of a new file
LevelApply ==
    /\ Len(level.files) < MaxFiles
    /\ \E lo \in FileTimestamps, hi \in FileTimestamps, size \in FileSizes :
          /\ lo <= hi
          /\ level' = LevelInfo_apply(level, [file_id |-> Len(level.files) + 1,
                                              file_size |-> size, ts_min |-> lo,
                                              ts_max |-> hi, is_delta |-> FALSE])
    /\ UNCHANGED <<famVars, mcVars, blkVars, dspVars, lckVars>>

\* mark_removed() on one of the level's files (the level holds Arc<ColumnFile>)
LevelMarkRemoved ==
    /\ \E i \in 1..Len(level.files) :
          /\ ~ColumnFile_is_deleted(level.files[i])
          /\ level' = [level EXCEPT !.files[i] = ColumnFile_mark_removed(@)]
    /\ UNCHANGED <<famVars, mcVars, blkVars, dspVars, lckVars>>

InitLevel ==
    /\ FamilyInit([max_memcache_size |-> 1024, max_immemcache_num |-> 2], 500, I64_MIN)
    /\ McInit
    /\ LvlInit
    /\ BlkIdle
    /\ DspIdle
    /\ LckIdle

NextLevel == LevelApply \/ LevelMarkRemoved

SpecLevel == InitLevel /\ [][NextLevel]_vars

\* DataBlock::merge_blocks(blocks)
MergeBlocks ==
    /\ blk_res = NoCall
    /\ LET r == merge_blocks(blocks)
       IN blk_res' = [op |-> "merge_blocks", out |-> r.out, panic |-> r.panic]
    /\ UNCHANGED <<famVars, mcVars, lvlVars, blocks, dspVars, lckVars>>

\* blocks[1].append(&blocks[2])
AppendBlock ==
    /\ blk_res = NoCall
    /\ Len(blocks) = 2
    /\ LET r == DataBlock_append(blocks[1], blocks[2])
       IN blk_res' = [op |-> "append", out |-> r.self, panic |-> r.panic]
    /\ UNCHANGED <<famVars, mcVars, lvlVars, blocks, dspVars, lckVars>>

InitBlock ==
    /\ FamilyInit([max_memcache_size |-> 1024, max_immemcache_num |-> 2], 500, I64_MIN)
    /\ McInit
    /\ LvlInit
    /\ DspIdle
    /\ LckIdle
    /\ blocks \in BlockLists
    /\ blk_res = NoCall

NextBlock == MergeBlocks \/ AppendBlock

SpecBlock == InitBlock /\ [][NextBlock]_vars

\* one entry written with ties in the timestamps and changing value types
NextEntry == McInsertRawSameField \/ McSwitchToImmutable

SpecEntry == InitCache /\ [][NextEntry]_vars

----------------------------------------------------------------------------
\* Vocabulary of the properties.

RECURSIVE SumSeq(_)
SumSeq(s) == IF Len(s) = 0 THEN 0 ELSE Head(s) + SumSeq(Tail(s))

RECURSIVE SumOver(_, _)
SumOver(f, S) ==
    IF S = {} THEN 0
    ELSE LET x == CHOOSE y \in S : TRUE IN f[x] + SumOver(f, S \ {x})

\* number of cells of field `fid` with timestamp `ts` held by cache m
CountIn(m, fid, ts) ==
    IF fid \in DOMAIN m.data_cache
    THEN Cardinality({i \in 1..Len(m.data_cache[fid].cells) :
                         m.data_cache[fid].cells[i].ts = ts})
    ELSE 0

\* number of cells held by cache m
NumCells(m) ==
    SumOver([f \in DOMAIN m.data_cache |-> Len(m.data_cache[f].cells)], DOMAIN m.data_cache)

\* the timestamps held by cache m
TsOf(m) ==
    UNION {{m.data_cache[f].cells[i].ts : i \in 1..Len(m.data_cache[f].cells)} :
              f \in DOMAIN m.data_cache}

\* the step is a put_mutcache call that returned
PutStep == Len(puts') = Len(puts) + 1 /\ ~panicked'
ThePut == puts'[Len(puts')]
\* the watermark the put routes by: immut_ts_min after the bootstrap step
Admission == IF tsf.immut_ts_min = I64_MIN THEN ThePut.ts ELSE tsf.immut_ts_min

\* indices of the FlushReqs of one kind
ReqsOf(kind) == {i \in 1..Len(flush_log) : flush_log[i].kind = kind}
\* indices of the FlushReqs pushed by the step
NewReqs(kind) == {i \in Len(FLUSH_REQ) + 1 .. Len(FLUSH_REQ') : flush_log'[i].kind = kind}

----------------------------------------------------------------------------
----------------------------------------------------------------------------
\* C2: immut_ts_min never decreases: its value after a put is >= its value
\* before the put, for any initial max_level_ts, any initial mutable cache
\* (also one with max_buf_size 0) and any thresholds.
C2_WatermarkNeverDecreases ==
    [][tsf'.immut_ts_min >= tsf.immut_ts_min]_vars

----------------------------------------------------------------------------
\* Scenario S1: a fresh family with thresholds no cache reaches, then
\* put(1, ts=100), put(1, ts=90), put(1, ts=110).
S1 ==
    /\ GLOBAL_CONFIG.max_memcache_size = 1024
    /\ heap[1].max_buf_size = 500
    /\ version.max_level_ts = I64_MIN
    /\ nswitch = 0
    /\ Len(puts) = 3
    /\ \A i \in 1..3 : puts[i].fid = 1
    /\ <<puts[1].ts, puts[2].ts, puts[3].ts>> = <<100, 90, 110>>

\* C3 as stated: after S1 the current mutable cache holds exactly {100,110},
\* the current delta cache holds exactly {90}, immut_ts_min == 100 and
\* mut_ts_max == 110.
C3_S1_AsStated ==
    S1 => /\ TsOf(heap[tsf.mut_cache]) = {100, 110}
          /\ TsOf(heap[tsf.delta_mut_cache]) = {90}
          /\ tsf.immut_ts_min = 100
          /\ tsf.mut_ts_max = 110

\* C3 amended: after S1 the current mutable cache holds exactly {100,110},
\* immut_ts_min == 100 and mut_ts_max == 110; the delta cache that received 90
\* holds exactly {90} and is the only member of the one FlushReq on FLUSH_REQ,
\* and the current delta cache is a fresh empty cache.
C3_S1_Amended ==
    S1 => /\ TsOf(heap[tsf.mut_cache]) = {100, 110}
          /\ NumCells(heap[tsf.mut_cache]) = 2
          /\ tsf.immut_ts_min = 100
          /\ tsf.mut_ts_max = 110
          /\ Len(FLUSH_REQ) = 1
          /\ FLUSH_REQ[1].mems = <<<<tsf.tf_id, 2>>>>
          /\ TsOf(heap[2]) = {90}
          /\ NumCells(heap[2]) = 1
          /\ tsf.delta_mut_cache # 2
          /\ DOMAIN heap[tsf.delta_mut_cache].data_cache = {}

\* the three puts of S1 have run
C3_Witness == S1 /\ tsf.mut_ts_max = 110

----------------------------------------------------------------------------
----------------------------------------------------------------------------
\* the immutable FlushReqs, in the order they were pushed
RECURSIVE ImmutReqs(_)
ImmutReqs(n) ==
    IF n = 0 THEN <<>>
    ELSE IF flush_log[n].kind = "immut"
         THEN Append(ImmutReqs(n - 1), FLUSH_REQ[n])
         ELSE ImmutReqs(n - 1)

\* the run so far consists of puts only, under thresholds of at least 1
PutOnlyRun ==
    /\ nswitch = 0
    /\ GLOBAL_CONFIG.max_memcache_size > 0
    /\ GLOBAL_CONFIG.max_immemcache_num >= 1

\* C5 (state part): in a put-only run with max_immemcache_num = K, one immutable
\* FlushReq has been pushed per K rotations; the j-th carries exactly the K
\* caches of rotations (j-1)K+1 .. jK in rotation order, and immut_caches holds
\* only the caches rotated out since the last immutable flush (none right after it).
C5_FlushState ==
    PutOnlyRun =>
        LET K == GLOBAL_CONFIG.max_immemcache_num
            reqs == ImmutReqs(Len(flush_log))
            n == Len(frozen) \div K
        IN /\ Len(reqs) = n
           /\ \A j \in 1..Len(reqs) :
                 /\ reqs[j].mems = [i \in 1..K |-> <<tsf.tf_id, frozen[(j - 1) * K + i]>>]
                 /\ reqs[j].wait_req = 0
           /\ tsf.immut_cache = SubSeq(frozen, n * K + 1, Len(frozen))

\* C5 (step part): a put rotates the mutable cache exactly when that cache is
\* full after the insert, and pushes an immutable FlushReq exactly when the
\* rotation is a K-th one.
C5_FlushStep ==
    (PutStep /\ PutOnlyRun) =>
        LET K == GLOBAL_CONFIG.max_immemcache_num
            full == MemCache_is_full(heap'[tsf.mut_cache])
        IN /\ full => frozen' = Append(frozen, tsf.mut_cache)
           /\ full => tsf'.mut_cache # tsf.mut_cache
           /\ ~full => (frozen' = frozen /\ tsf'.mut_cache = tsf.mut_cache)
           /\ Cardinality(NewReqs("immut")) =
                 IF full /\ Len(frozen') % K = 0 THEN 1 ELSE 0
           /\ NewReqs("immut") # {} => tsf'.immut_cache = <<>>

\* C5: rotation and immutable flush by the two thresholds in a put-only run.
C5_RotationAndFlushByThresholds ==
    []C5_FlushState /\ [][C5_FlushStep]_vars

\* K = 2 and the third rotation has happened: exactly one immutable FlushReq
C5_Witness ==
    /\ PutOnlyRun
    /\ GLOBAL_CONFIG.max_immemcache_num = 2
    /\ Len(frozen) = 3
    /\ Cardinality(ReqsOf("immut")) = 1
    /\ Len(tsf.immut_cache) = 1

----------------------------------------------------------------------------
----------------------------------------------------------------------------
\* every reference to a cache kept by the family or by FLUSH_REQ
RECURSIVE Flatten(_)
Flatten(ss) == IF Len(ss) = 0 THEN <<>> ELSE Head(ss) \o Flatten(Tail(ss))

CacheRefs ==
    <<tsf.mut_cache, tsf.delta_mut_cache>> \o tsf.immut_cache
    \o Flatten([i \in 1..Len(FLUSH_REQ) |->
                   [k \in 1..Len(FLUSH_REQ[i].mems) |-> FLUSH_REQ[i].mems[k][2]]])

\* C7: after N puts with valid value types, the cells of the current mutable
\* cache, the current delta cache, the caches of immut_caches and the caches
\* held by the FlushReqs on FLUSH_REQ number N, and every sample is in exactly
\* one of them.
C7_SampleConservation ==
    ~panicked =>
        LET refs == CacheRefs
        IN /\ SumSeq([i \in 1..Len(refs) |-> NumCells(heap[refs[i]])]) = Len(puts)
           /\ \A f \in Fields, ts \in Timestamps :
                 SumSeq([i \in 1..Len(refs) |-> CountIn(heap[refs[i]], f[1], ts)])
                    = Cardinality({n \in 1..Len(puts) :
                                      puts[n].fid = f[1] /\ puts[n].ts = ts})

\* samples spread over the mutable cache, an immutable FlushReq and a delta FlushReq
C7_Witness ==
    /\ Len(puts) = MaxPuts
    /\ ReqsOf("immut") # {}
    /\ ReqsOf("delta") # {}
    /\ \E i \in ReqsOf("delta") : NumCells(heap[FLUSH_REQ[i].mems[1][2]]) > 0
    /\ \E i \in ReqsOf("immut") : NumCells(heap[FLUSH_REQ[i].mems[1][2]]) > 0
    /\ NumCells(heap[tsf.mut_cache]) > 0

----------------------------------------------------------------------------
\* C8: every published SuperVersion carries a version_id strictly greater
\* than all published before it (so none is used twice), and the published
\* version_id equals the super_version_id counter.
C8_VersionIdsIncrease ==
    /\ \A i \in 1..Len(published) : published[i] > 0
    /\ \A i, j \in 1..Len(published) : i < j => published[i] < published[j]
    /\ tsf.super_version.version_id = tsf.super_version_id
    /\ published # <<>> => published[Len(published)] = tsf.super_version_id

\* one put that published three times: rotation, immutable flush, delta flush
C8_Witness ==
    /\ Len(puts) = 1
    /\ nswitch = 0
    /\ Len(published) = 3
    /\ Len(frozen) = 1
    /\ ReqsOf("immut") # {} /\ ReqsOf("delta") # {}

----------------------------------------------------------------------------
\* cells is a rearrangement of old that is non-decreasing by timestamp
SortedCopy(cells, old) ==
    /\ Len(cells) = Len(old)
    /\ \A i \in 1..Len(cells) :
          Cardinality({k \in 1..Len(cells) : cells[k] = cells[i]})
             = Cardinality({k \in 1..Len(old) : old[k] = cells[i]})
    /\ \A i \in 1..Len(cells) - 1 : cells[i].ts <= cells[i + 1].ts

----------------------------------------------------------------------------
\* C10: once switch_to_immutable has been called on a MemCache, insert and
\* insert_raw leave its data_cache and cache_size unchanged.
C10_FrozenCacheAdmitsNoInsert ==
    [][(mc.immutable /\ mc_last' \in {"insert", "insert_raw"} /\ mc_ops' = mc_ops + 1) =>
          /\ mc'.data_cache = mc.data_cache
          /\ mc'.cache_size = mc.cache_size
    ]_vars

----------------------------------------------------------------------------
\* the cells of timestamp t, in their order
WithTs(cells, t) == SelectSeq(cells, LAMBDA c : c.ts = t)

\* the timestamps of a cell list
TsIn(cells) == {cells[i].ts : i \in 1..Len(cells)}

\* C11: after MemCache::switch_to_immutable the cache is frozen and every
\* entry holds the cells it held before, non-decreasing by timestamp, the
\* cells of one timestamp in the order they were inserted in.
C11_SwitchSortsStably ==
    mc_last = "switch_to_immutable" =>
        /\ mc.immutable
        /\ DOMAIN mc.data_cache = DOMAIN mc_pre.data_cache
        /\ \A f \in DOMAIN mc.data_cache :
              LET now == mc.data_cache[f].cells
                  old == mc_pre.data_cache[f].cells
              IN /\ Len(now) = Len(old)
                 /\ \A i \in 1..Len(now) - 1 : now[i].ts <= now[i + 1].ts
                 /\ \A t \in TsIn(old) \cup TsIn(now) : WithTs(now, t) = WithTs(old, t)

\* a cache frozen while an entry held a later cell before an earlier one and
\* two different cells of one timestamp
C11_Witness ==
    /\ mc_last = "switch_to_immutable"
    /\ \E f \in DOMAIN mc_pre.data_cache :
          LET old == mc_pre.data_cache[f].cells
          IN /\ \E i, j \in 1..Len(old) : i < j /\ old[i].ts > old[j].ts
             /\ \E i, j \in 1..Len(old) : i < j /\ old[i].ts = old[j].ts /\ old[i] # old[j]

\* C12: in every state a MemCache reaches by insert, insert_raw, delete_range
\* and switch_to_immutable, every cell of every entry has its timestamp
\* between the entry's ts_min and ts_max.
C12_EntryBoundsCoverCells ==
    \A f \in DOMAIN mc.data_cache :
        LET e == mc.data_cache[f]
        IN \A i \in 1..Len(e.cells) :
              e.ts_min <= e.cells[i].ts /\ e.cells[i].ts <= e.ts_max

\* a delete_range that removed the latest cell of an entry and left an
\* earlier one: ts_max is no longer the timestamp of any cell
C12_Witness ==
    /\ mc_last = "delete_range"
    /\ \E f \in DOMAIN mc.data_cache :
          LET e == mc.data_cache[f]
              old == mc_pre.data_cache[f]
          IN /\ Len(e.cells) >= 1
             /\ Len(old.cells) > Len(e.cells)
             /\ \A i \in 1..Len(e.cells) : e.cells[i].ts < e.ts_max

\* the DataType variant that insert_raw builds for a value type
TagOf(value_type) ==
    CASE value_type = "Unsigned" -> "U64"
      [] value_type = "Integer" -> "I64"
      [] value_type = "Float" -> "F64"
      [] value_type = "String" -> "Str"
      [] value_type = "Boolean" -> "Bool"
      [] OTHER -> "Unknown"

\* C13: in every state a MemCache reaches by insert / insert_raw calls, calls
\* that write one field id under different value types included, every cell
\* of an entry carries the tag of the entry's field_type.
C13_EntryTypeHomogeneous ==
    \A f \in DOMAIN mc.data_cache :
        LET e == mc.data_cache[f]
        IN \A i \in 1..Len(e.cells) : e.cells[i].tag = TagOf(e.field_type)

\* C14: over puts whose seq arguments never decrease, the seq_no of the
\* family's current mutable cache, read after each put, never decreases, a
\* put that rotates in a fresh mutable cache included.
C14_SeqNoNeverDecreases ==
    [][(PutStep /\ nswitch = 0 /\ Len(puts) >= 1 /\ ThePut.seq >= puts[Len(puts)].seq)
          => heap'[tsf'.mut_cache].seq_no >= heap[tsf.mut_cache].seq_no]_vars

\* the field ids of a list
IdsOf(field_ids) == {field_ids[i] : i \in 1..Len(field_ids)}

\* C15 as stated: delete_range(r) is inclusive at both ends: the cells of a
\* listed entry afterwards are the cells it held before whose timestamp is
\* below r.min_ts or above r.max_ts, in the order they had; a cell at
\* r.min_ts or at r.max_ts is removed.
C15_DeleteRangeInclusive ==
    mc_last = "delete_range" =>
        /\ DOMAIN mc.data_cache = DOMAIN mc_pre.data_cache
        /\ \A f \in DOMAIN mc.data_cache \cap IdsOf(mc_arg.field_ids) :
              LET r == mc_arg.range
                  now == mc.data_cache[f].cells
                  old == mc_pre.data_cache[f].cells
              IN /\ now = SelectSeq(old, LAMBDA c : c.ts < r.min_ts \/ c.ts > r.max_ts)
                 /\ \A i \in 1..Len(now) : now[i].ts # r.min_ts /\ now[i].ts # r.max_ts

\* C15 amended: the cells of a listed entry after delete_range(r) are the
\* cells it held before whose timestamp is below r.min_ts or above r.max_ts,
\* in the order they had; when r.min_ts <= r.max_ts a cell at r.min_ts or at
\* r.max_ts is removed, and when r.min_ts > r.max_ts every cell is kept.
C15_DeleteRangeInclusive_Amended ==
    mc_last = "delete_range" =>
        /\ DOMAIN mc.data_cache = DOMAIN mc_pre.data_cache
        /\ \A f \in DOMAIN mc.data_cache \cap IdsOf(mc_arg.field_ids) :
              LET r == mc_arg.range
                  now == mc.data_cache[f].cells
                  old == mc_pre.data_cache[f].cells
              IN /\ now = SelectSeq(old, LAMBDA c : c.ts < r.min_ts \/ c.ts > r.max_ts)
                 /\ r.min_ts <= r.max_ts =>
                       \A i \in 1..Len(now) : now[i].ts # r.min_ts /\ now[i].ts # r.max_ts
                 /\ r.min_ts > r.max_ts => now = old

\* delete_range over [90, 100] of an entry holding cells at 90, 100 and 110:
\* the cells at both ends of the range are gone and the one at 110 is left
C15_Witness ==
    /\ mc_last = "delete_range"
    /\ mc_arg.range = [max_ts |-> 100, min_ts |-> 90]
    /\ \E f \in DOMAIN mc.data_cache \cap IdsOf(mc_arg.field_ids) :
          /\ TsIn(mc_pre.data_cache[f].cells) = {90, 100, 110}
          /\ Len(mc_pre.data_cache[f].cells) = 3
          /\ TsIn(mc.data_cache[f].cells) = {110}

\* C16: deleting is idempotent: for every cache state, field id list and
\* range, delete_range applied twice leaves the cache that delete_range
\* applied once leaves.
C16_DeleteRangeIdempotent ==
    \A ids \in FieldIdLists, r \in Ranges :
        LET once == MemCache_delete_range(mc, ids, r)
        IN MemCache_delete_range(once, ids, r) = once

\* the cache left by a delete_range that removed two cells of an entry and
\* kept a third
C16_Witness ==
    /\ mc_last = "delete_range"
    /\ \E f \in DOMAIN mc.data_cache \cap IdsOf(mc_arg.field_ids) :
          /\ Len(mc_pre.data_cache[f].cells) = 3
          /\ Len(mc.data_cache[f].cells) = 1

\* the caches the family holds: mutable, delta and immutables
FamilyCaches ==
    {tsf.mut_cache, tsf.delta_mut_cache} \cup {tsf.immut_cache[i] : i \in 1..Len(tsf.immut_cache)}

InRange(c, r) == r.min_ts <= c.ts /\ c.ts <= r.max_ts

\* C17: delete_cache(r) leaves no cell with r.min_ts <= ts <= r.max_ts in the
\* current mutable cache, the current delta cache or any immutable cache,
\* keeps every cell outside r in its place, and keeps every entry, one whose
\* cells were all deleted included (with an empty cell list).
C17_DeleteCacheRemovesRange ==
    [][Len(deletes') = Len(deletes) + 1 =>
        LET r == deletes'[Len(deletes')]
        IN /\ tsf' = tsf
           /\ DOMAIN heap' = DOMAIN heap
           /\ \A h \in FamilyCaches :
                 /\ DOMAIN heap'[h].data_cache = DOMAIN heap[h].data_cache
                 /\ \A f \in DOMAIN heap[h].data_cache :
                       LET now == heap'[h].data_cache[f].cells
                           old == heap[h].data_cache[f].cells
                       IN /\ \A i \in 1..Len(now) : ~InRange(now[i], r)
                          /\ now = SelectSeq(old, LAMBDA c : ~InRange(c, r))
    ]_vars

\* after a delete_cache over [90, 100] the immutable cache, the delta cache
\* and the mutable cache each hold an entry: the first two emptied, the
\* third still with its cell at 110
C17_Witness ==
    /\ deletes = <<[max_ts |-> 100, min_ts |-> 90]>>
    /\ Len(puts) = 3
    /\ Len(tsf.immut_cache) = 1
    /\ \E f \in DOMAIN heap[tsf.immut_cache[1]].data_cache :
          heap[tsf.immut_cache[1]].data_cache[f].cells = <<>>
    /\ \E f \in DOMAIN heap[tsf.delta_mut_cache].data_cache :
          heap[tsf.delta_mut_cache].data_cache[f].cells = <<>>
    /\ \E f \in DOMAIN heap[tsf.mut_cache].data_cache :
          TsIn(heap[tsf.mut_cache].data_cache[f].cells) = {110}

\* the blocks handed in are of one variant
SameTag == \A i, j \in 1..Len(blocks) : blocks[i].tag = blocks[j].tag

\* the places in the list of the blocks holding timestamp t
Holding(t) == {k \in 1..Len(blocks) : t \in {blocks[k].ts[i] : i \in 1..Len(blocks[k].ts)}}

\* the value block b holds for timestamp t
ValueAt(b, t) == b.val[CHOOSE i \in 1..Len(b.ts) : b.ts[i] = t]

\* C18: merge_blocks over a non-empty list of blocks of one variant, each
\* strictly ascending by timestamp, returns a block of that variant whose
\* timestamps are the union of the inputs' timestamps in strictly ascending
\* order, each with the value of the last block of the list holding it; a
\* list of one block is returned as it is.
C18_MergeBlocksLastWins ==
    (blk_res.op = "merge_blocks" /\ Len(blocks) >= 1 /\ SameTag) =>
        /\ ~blk_res.panic
        /\ LET out == blk_res.out
           IN /\ out.tag = blocks[1].tag
              /\ Len(out.val) = Len(out.ts)
              /\ \A i \in 1..Len(out.ts) - 1 : out.ts[i] < out.ts[i + 1]
              /\ {out.ts[i] : i \in 1..Len(out.ts)}
                    = UNION {{blocks[k].ts[i] : i \in 1..Len(blocks[k].ts)} : k \in 1..Len(blocks)}
              /\ \A i \in 1..Len(out.ts) :
                    LET last == CHOOSE k \in Holding(out.ts[i]) :
                                   \A j \in Holding(out.ts[i]) : j <= k
                    IN out.val[i] = ValueAt(blocks[last], out.ts[i])
              /\ Len(blocks) = 1 => out = blocks[1]

\* a merge of three blocks of one variant: timestamp 1 held by the first
\* block only, 2 by the first and the second, 3 by the second and the third
C18_Witness ==
    /\ blk_res.op = "merge_blocks"
    /\ Len(blocks) = 3
    /\ SameTag
    /\ Holding(1) = {1}
    /\ Holding(2) = {1, 2}
    /\ Holding(3) = {2, 3}
    /\ blk_res.out.ts = <<1, 2, 3>>

\* C19: self.append(other) merges other into self: for two blocks of one
\* variant, each strictly ascending, self afterwards holds the union of the
\* timestamps in ascending order, with other's value where both hold a
\* timestamp; an empty other, or an other of a different variant, leaves
\* self as it was.
C19_AppendMerges ==
    blk_res.op = "append" =>
        LET self == blocks[1]
            other == blocks[2]
            out == blk_res.out
        IN /\ ~blk_res.panic
           /\ (self.tag # other.tag \/ Len(other.ts) = 0) => out = self
           /\ (self.tag = other.tag /\ Len(other.ts) > 0) =>
                 /\ out.tag = self.tag
                 /\ Len(out.val) = Len(out.ts)
                 /\ \A i \in 1..Len(out.ts) - 1 : out.ts[i] < out.ts[i + 1]
                 /\ {out.ts[i] : i \in 1..Len(out.ts)}
                       = {self.ts[i] : i \in 1..Len(self.ts)}
                            \cup {other.ts[i] : i \in 1..Len(other.ts)}
                 /\ \A i \in 1..Len(out.ts) :
                       out.val[i] = IF 2 \in Holding(out.ts[i])
                                    THEN ValueAt(other, out.ts[i])
                                    ELSE ValueAt(self, out.ts[i])

\* C20: after any sequence of apply calls on a level made by LevelInfo::init,
\* the level's ts_range covers the range of every file of the level.
C20_LevelRangeCoversFiles ==
    \A i \in 1..Len(level.files) :
        /\ level.ts_range.min_ts <= level.files[i].range.min_ts
        /\ level.ts_range.max_ts >= level.files[i].range.max_ts

\* C21: in every state a level reaches by apply and mark_removed calls, its
\* cur_size is the sum of the sizes of its files that are not marked deleted.
C21_CurSizeIsLiveFileSize ==
    level.cur_size =
        SumSeq([i \in 1..Len(level.files) |->
                   IF ColumnFile_is_deleted(level.files[i]) THEN 0 ELSE level.files[i].size])

\* C22: insert_raw with value type Unknown returns the error value
\* UnsupportedType to its caller and leaves the cache (data_cache,
\* cache_size, seq_no) as it was; the process is not aborted.
C22_UnknownTypeIsReturned ==
    (mc_last = "insert_raw" /\ mc_arg.field_type = "Unknown") =>
        /\ mc_ret = "Err(UnsupportedType)"
        /\ mc.data_cache = mc_pre.data_cache
        /\ mc.cache_size = mc_pre.cache_size
        /\ mc.seq_no = mc_pre.seq_no

\* requests family f has appended so far
Pushed(f) == disp[f].n + (IF disp[f].pc \in {"pushed", "logged"} THEN 1 ELSE 0)

\* places in FLUSH_REQ of the k-th request of family f
PlacesOf(f, k) == {i \in 1..Len(FLUSH_REQ) : FLUSH_REQ[i].mems[1] = <<f, k>>}

\* C23: every flush dispatch, delta or immutable, appends one FlushReq with
\* wait_req 0 to FLUSH_REQ and afterwards sends one wake.  Under every
\* interleaving of the families sharing the queue, each request appended is
\* in the queue exactly once, in the order the family appended them, the
\* wakes sent are those of the completed dispatches, and once every family
\* has completed its dispatch the wakes equal the requests appended.
C23_OneRequestOneWake ==
    /\ Len(FLUSH_REQ) = SumSeq([f \in 1..Cardinality(Families) |-> Pushed(f)])
    /\ \A i \in 1..Len(FLUSH_REQ) : FLUSH_REQ[i].wait_req = 0
    /\ \A f \in Families : \A k \in 1..Pushed(f) : Cardinality(PlacesOf(f, k)) = 1
    /\ \A f \in Families : \A k1, k2 \in 1..Pushed(f) :
          k1 < k2 => \A i \in PlacesOf(f, k1), j \in PlacesOf(f, k2) : i < j
    /\ sender = SumSeq([f \in 1..Cardinality(Families) |-> disp[f].n])
    /\ sender <= Len(FLUSH_REQ)
    /\ (\A f \in Families : disp[f].pc = "idle") => sender = Len(FLUSH_REQ)

\* both families have completed their dispatches, the second family's first
\* request having been appended between the first family's two
C23_Witness ==
    /\ \A f \in Families : disp[f].pc = "idle" /\ disp[f].n = MaxDispatch
    /\ PlacesOf(1, 1) = {1}
    /\ PlacesOf(2, 1) = {2}
    /\ PlacesOf(1, 2) = {3}
    /\ sender = 2 * MaxDispatch

\* C24: a rotation keeps the cache configuration: the fresh mutable cache
\* has the tf_id and the max_buf_size of the mutable cache it replaces,
\* whatever max_buf_size the first cache was built with, is not a delta
\* cache, and is empty with cache_size 0.
C24_RotationKeepsConfiguration ==
    [][Len(frozen') = Len(frozen) + 1 =>
        LET old == heap[tsf.mut_cache]
            new == heap'[tsf'.mut_cache]
        IN /\ tsf'.mut_cache # tsf.mut_cache
           /\ new.tf_id = old.tf_id
           /\ new.max_buf_size = old.max_buf_size
           /\ ~new.is_delta
           /\ DOMAIN new.data_cache = {}
           /\ new.cache_size = 0
    ]_vars

\* C25: after every completed public operation (put_mutcache,
\* switch_to_immutable, switch_memcache, delete_cache) the published
\* SuperVersion names the family's current mutable cache, its current delta
\* cache and its immutable caches in order; after switch_memcache(c) the
\* published mutable cache is c.
C25_SuperVersionCoherent ==
    /\ tsf.super_version.mut_cache = tsf.mut_cache
    /\ tsf.super_version.delta_mut_cache = tsf.delta_mut_cache
    /\ tsf.super_version.immut_cache = tsf.immut_cache
    /\ (handed # <<>> /\ tsf.mut_cache = handed[Len(handed)]) =>
          tsf.super_version.mut_cache = handed[Len(handed)]

\* cache m has had switch_to_immutable applied
Frozen(m) ==
    /\ m.immutable
    /\ \A f \in DOMAIN m.data_cache :
          \A i \in 1..Len(m.data_cache[f].cells) - 1 :
             m.data_cache[f].cells[i].ts <= m.data_cache[f].cells[i + 1].ts

\* C26: when a FlushReq, immutable or delta, is appended to FLUSH_REQ, every
\* cache in its mems has been frozen: its immutable flag is set and the
\* cells of each of its entries are sorted by timestamp.
C26_FlushedCachesAreFrozen ==
    [][\A i \in Len(FLUSH_REQ) + 1 .. Len(FLUSH_REQ') :
          \A k \in 1..Len(FLUSH_REQ'[i].mems) : Frozen(heap'[FLUSH_REQ'[i].mems[k][2]])
    ]_vars

\* the greatest element of a non-empty set of integers
MaxOf(S) == CHOOSE x \in S : \A y \in S : y <= x

\* C27: after every put, if the current mutable cache is not empty then
\* mut_ts_max is the greatest timestamp among the cells inserted into that
\* cache since it was installed; the maximum of a cache rotated out is not
\* carried over.
C27_MutTsMaxIsOfCurrentCache ==
    [][PutStep =>
        LET m == heap'[tsf'.mut_cache]
        IN DOMAIN m.data_cache # {} => tsf'.mut_ts_max = MaxOf(TsOf(m))
    ]_vars

\* C28: in a put-only run with max_memcache_size > 0 and
\* max_immemcache_num >= 1, whenever a put has returned the current mutable
\* cache is not full, the current delta cache is not full and fewer than
\* max_immemcache_num caches are retained: a full cache has been rotated or
\* shipped before the put returns.
C28_MemoryBounded ==
    [][(PutStep /\ PutOnlyRun) =>
        /\ ~MemCache_is_full(heap'[tsf'.mut_cache])
        /\ ~MemCache_is_full(heap'[tsf'.delta_mut_cache])
        /\ Len(tsf'.immut_cache) < GLOBAL_CONFIG.max_immemcache_num
    ]_vars

\* a put-only run rotated a full mutable cache into the retained list, shipped
\* a full delta cache, and the last put returned
C28_Witness ==
    /\ PutOnlyRun /\ ~panicked
    /\ Len(puts) >= 2
    /\ Len(tsf.immut_cache) = 1
    /\ ReqsOf("delta") # {}
    /\ NumCells(heap[tsf.mut_cache]) = 0

\* C29: after each put returns, every cell in the current mutable cache and in
\* every retained immutable cache has ts >= immut_ts_min, and every cell in the
\* current delta cache has ts < immut_ts_min.
C29_WatermarkPartition ==
    [][PutStep =>
        /\ \A t \in TsOf(heap'[tsf'.mut_cache]) : t >= tsf'.immut_ts_min
        /\ \A k \in 1..Len(tsf'.immut_cache) :
              \A t \in TsOf(heap'[tsf'.immut_cache[k]]) : t >= tsf'.immut_ts_min
        /\ \A t \in TsOf(heap'[tsf'.delta_mut_cache]) : t < tsf'.immut_ts_min
    ]_vars

\* the caches held by the FlushReqs of queue q, in queue order
FlushedRefs(q) ==
    Flatten([i \in 1..Len(q) |-> [k \in 1..Len(q[i].mems) |-> q[i].mems[k][2]]])

\* C30: a cache is handed to flush at most once and then leaves the family: no
\* cache is in two FlushReqs or twice in one, a cache in a FlushReq is neither
\* the current mutable cache, nor the current delta cache, nor in immut_caches,
\* and no later put inserts into it.
C30_FlushedOnceAndGone ==
    [][LET now == FlushedRefs(FLUSH_REQ')
           was == FlushedRefs(FLUSH_REQ)
       IN /\ \A i, j \in 1..Len(now) : now[i] = now[j] => i = j
          /\ \A i \in 1..Len(now) :
                /\ now[i] # tsf'.mut_cache
                /\ now[i] # tsf'.delta_mut_cache
                /\ \A k \in 1..Len(tsf'.immut_cache) : now[i] # tsf'.immut_cache[k]
          /\ PutStep => \A i \in 1..Len(was) : heap'[was[i]] = heap[was[i]]
    ]_vars

\* an immutable FlushReq and a delta FlushReq are on the queue, and a later put
\* has stored a cell in the family's current mutable cache
C30_Witness ==
    /\ ~panicked
    /\ ReqsOf("immut") # {} /\ ReqsOf("delta") # {}
    /\ Len(FlushedRefs(FLUSH_REQ)) >= 2
    /\ NumCells(heap[tsf.mut_cache]) >= 1

\* C31: MemCache.delete_range changes only the cells of the entries named in
\* field_ids: cache_size, seq_no, the immutable flag, the keys of data_cache,
\* every entry's ts_min, ts_max and field_type and the cells of all other
\* entries are as before; hence cache_size never decreases over the life of a
\* cache and is_full never turns from true to false.
C31_DeleteRangeFrame ==
    [][/\ (mc_ops' = mc_ops + 1 /\ mc_last' = "delete_range") =>
             /\ mc'.cache_size = mc.cache_size
             /\ mc'.seq_no = mc.seq_no
             /\ mc'.immutable = mc.immutable
             /\ DOMAIN mc'.data_cache = DOMAIN mc.data_cache
             /\ \A f \in DOMAIN mc.data_cache :
                   /\ mc'.data_cache[f].ts_min = mc.data_cache[f].ts_min
                   /\ mc'.data_cache[f].ts_max = mc.data_cache[f].ts_max
                   /\ mc'.data_cache[f].field_type = mc.data_cache[f].field_type
                   /\ f \notin IdsOf(mc_arg'.field_ids) =>
                         mc'.data_cache[f].cells = mc.data_cache[f].cells
       /\ mc'.cache_size >= mc.cache_size
       /\ MemCache_is_full(mc) => MemCache_is_full(mc')
    ]_vars

\* delete_range on a full cache removed cells of a named entry next to an
\* entry that was not named, and the cache is still full
C31_Witness ==
    /\ mc_last = "delete_range"
    /\ MemCache_is_full(mc_pre) /\ MemCache_is_full(mc)
    /\ NumCells(mc) < NumCells(mc_pre)
    /\ \E f \in DOMAIN mc.data_cache :
          f \notin IdsOf(mc_arg.field_ids) /\ Len(mc.data_cache[f].cells) >= 1

\* C32: put_mutcache, switch_to_immutable and delete_cache never await a
\* MemCache or Version lock while holding another guard, and with scanners that
\* hold shared guards on caches of published SuperVersions and release them,
\* every call the writer has started completes.
C32_NoHoldAndWait ==
    /\ [](Waiting => wr.held = {})
    /\ (wr.pc # "idle") ~> (wr.pc = "idle")

\* the writer, inside its second call, awaits the exclusive guard of a cache
\* on which a scanner holds a shared guard
C32_Witness ==
    /\ Waiting
    /\ wr.calls = 1
    /\ Wants.mode = "w"
    /\ Wants.lock \in shared
    /\ wr.held = {}

====
